---- MODULE Spec2Model ----
(***************************************************************************)
(* Model of the session state machine of the distraction-free editor       *)
(* (src/src/main.rs): the Editor struct, Editor::update, the three async   *)
(* file operations and the directory scan of find_and_load_file.           *)
(*                                                                         *)
(* An async operation started with Task::perform is an element of the bag  *)
(* `pending`; it performs its file I/O in one step (RunCreate, RunSave,     *)
(* RunLoad) and its result is queued in `msgs`; the event loop hands the    *)
(* queued results to Editor::update one at a time (FileCreated, FileSaved,  *)
(* FileLoaded), interleaved with the user and timer messages.               *)
(*                                                                         *)
(* Outside the repository and modelled by their contracts: the iced        *)
(* text_editor widget (Content::text returns the text that with_text and    *)
(* perform produced), the executor, and the file system (a failed write     *)
(* leaves the file as it was; the working directory holds regular .txt      *)
(* files only and no other process changes it). WindowOpened changes the    *)
(* window mode only and is left out.                                        *)
(***************************************************************************)
EXTENDS Naturals, Sequences, FiniteSets, Bags

\* ------------------------------------------------------------------ bounds
MaxLen == 1      \* longest buffer text explored
MaxPre == 1      \* number of .txt files that may exist before the session
MaxClock == 1    \* seconds the wall clock may advance during the session
MaxOps == 3      \* operations launched in one run, the bootstrap included
MaxFail == 1     \* file operations that fail with an I/O error in one run

Chars == {"x"}

VARIABLES
    file,        \* Editor.file: Option<PathBuf>, <<>> is None, <<p>> is Some(p)
    content,     \* Editor.content: the text held by the text_editor::Content
    is_loading,  \* Editor.is_loading
    is_dirty,    \* Editor.is_dirty
    pending,     \* bag of the operations launched by Task::perform, not run yet
    msgs,        \* completion messages waiting for Editor::update, in order
    disk,        \* the working directory: file name -> <<>> (absent) or <<text>>
    now,         \* Local::now(), in seconds
    launched,    \* number of operations launched so far
    reconciled,  \* number of completion messages Editor::update has handled
    last,        \* the message Editor::update handled last
    handed,      \* texts of this buffer that were loaded/created or given to a save
    fails,       \* number of file operations that failed with an I/O error
    bootstrap,   \* outcome of the create_new_file of Editor::new, once handled
    adj,         \* inputs and results of the adjacent-file selection under test
    owned        \* names of the files that belong to the document in the buffer

vars == <<file, content, is_loading, is_dirty, pending, msgs, disk, now, launched,
          reconciled, last, handed, fails, bootstrap, adj, owned>>

editor == <<file, content, is_loading, is_dirty>>

\* ------------------------------------------------------------------ values
None == <<>>
Some(x) == <<x>>

Texts == UNION {[1..n -> Chars] : n \in 0..MaxLen}

ClockStart == MaxPre + 1
Clock == ClockStart..(ClockStart + MaxClock)
PreNames == 1..MaxPre
Names == PreNames \cup Clock

\* A PathBuf. A relative path (abs = FALSE) is the bare file name; an absolute
\* one is the working directory joined with the file name. Both name the same
\* file on disk, and they are different PathBuf values.
Paths == [abs : BOOLEAN, name : Names]
Bare(n) == [abs |-> FALSE, name |-> n]
Abs(n) == [abs |-> TRUE, name |-> n]

\* format!("{}.txt", now.format("%Y-%m-%d_%H-%M-%S")) and PathBuf::from: one
\* name per second, relative to the working directory.
NewFilename(t) == Bare(t)

\* ------------------------------------------------------- the text buffer
\* text_editor::Action as far as update uses it: is_edit() and the effect of
\* Content::perform on the text. Insert and Backspace are Action::Edit
\* (is_edit() is true), Move is a cursor motion (is_edit() is false).
Actions ==
    [is_edit : {TRUE}, op : {"Insert"}, ch : Chars]
        \cup {[is_edit |-> TRUE, op |-> "Backspace", ch |-> ""],
              [is_edit |-> FALSE, op |-> "Move", ch |-> ""]}

\* Content::perform: Backspace on an empty buffer changes nothing.
Perform(text, action) ==
    CASE action.op = "Insert" -> Append(text, action.ch)
      [] action.op = "Backspace" ->
            IF text = <<>> THEN text ELSE SubSeq(text, 1, Len(text) - 1)
      [] OTHER -> text

\* ------------------------------------------------------- directory scan
RECURSIVE SortedSeq(_)
SortedSeq(S) ==
    IF S = {} THEN <<>>
    ELSE LET m == CHOOSE x \in S : \A y \in S : x <= y
         IN <<m>> \o SortedSeq(S \ {m})

\* read_dir(current_dir) + filter + sort: the absolute paths of the files in
\* the working directory, ascending.
ListTxtFiles(d) ==
    LET present == {n \in DOMAIN d : d[n] # None}
        sorted == SortedSeq(present)
    IN [i \in 1..Len(sorted) |-> Abs(sorted[i])]

\* txt_files.iter().position(|p| p == &current): 0-based index of the first
\* equal element.
Position(txt_files, current) ==
    IF \E i \in 1..Len(txt_files) : txt_files[i] = current
    THEN Some((CHOOSE i \in 1..Len(txt_files) :
                  /\ txt_files[i] = current
                  /\ \A j \in 1..(i - 1) : txt_files[j] # current) - 1)
    ELSE None

\* Variants of the selection with one plausible slip each.
\* Previous from the first file stays on the first file instead of wrapping.
FindAdjacentClampFirst(txt_files, current_file, find_previous) ==
    IF txt_files = <<>> THEN None
    ELSE
      LET current_index ==
              IF current_file # None THEN Position(txt_files, current_file[1])
              ELSE None
          len == Len(txt_files)
      IN IF current_index # None
         THEN LET index == current_index[1]
              IN IF find_previous
                 THEN IF index = 0
                      THEN IF len > 1 THEN Some(txt_files[0 + 1]) ELSE None
                      ELSE Some(txt_files[(index - 1) + 1])
                 ELSE IF index >= len - 1
                      THEN IF len > 1 THEN Some(txt_files[0 + 1]) ELSE None
                      ELSE Some(txt_files[(index + 1) + 1])
         ELSE Some(txt_files[0 + 1])

\* Next from the last file wraps to the second file instead of the first.
FindAdjacentWrapSecond(txt_files, current_file, find_previous) ==
    IF txt_files = <<>> THEN None
    ELSE
      LET current_index ==
              IF current_file # None THEN Position(txt_files, current_file[1])
              ELSE None
          len == Len(txt_files)
      IN IF current_index # None
         THEN LET index == current_index[1]
              IN IF find_previous
                 THEN IF index = 0
                      THEN IF len > 1 THEN Some(txt_files[(len - 1) + 1]) ELSE None
                      ELSE Some(txt_files[(index - 1) + 1])
                 ELSE IF index >= len - 1
                      THEN IF len > 1 THEN Some(txt_files[1 + 1]) ELSE None
                      ELSE Some(txt_files[(index + 1) + 1])
         ELSE Some(txt_files[0 + 1])

\* The sole file wraps around to itself instead of failing.
FindAdjacentWrapSelf(txt_files, current_file, find_previous) ==
    IF txt_files = <<>> THEN None
    ELSE
      LET current_index ==
              IF current_file # None THEN Position(txt_files, current_file[1])
              ELSE None
          len == Len(txt_files)
      IN IF current_index # None
         THEN LET index == current_index[1]
              IN IF find_previous
                 THEN IF index = 0
                      THEN Some(txt_files[(len - 1) + 1])
                      ELSE Some(txt_files[(index - 1) + 1])
                 ELSE IF index >= len - 1
                      THEN Some(txt_files[0 + 1])
                      ELSE Some(txt_files[(index + 1) + 1])
         ELSE Some(txt_files[0 + 1])

\* The selection of find_and_load_file: None is Err(NotFound), Some(p) the
\* target path. Indices are 0-based as in the source; txt_files[k] of the
\* source is txt_files[k + 1] here.
FindAdjacent(txt_files, current_file, find_previous) ==
    IF txt_files = <<>> THEN None
    ELSE
      LET current_index ==
              IF current_file # None THEN Position(txt_files, current_file[1])
              ELSE None
          len == Len(txt_files)
      IN IF current_index # None
         THEN LET index == current_index[1]
              IN IF find_previous
                 THEN IF index = 0
                      THEN IF len > 1 THEN Some(txt_files[(len - 1) + 1]) ELSE None
                      ELSE Some(txt_files[(index - 1) + 1])
                 ELSE IF index >= len - 1
                      THEN IF len > 1 THEN Some(txt_files[0 + 1]) ELSE None
                      ELSE Some(txt_files[(index + 1) + 1])
         ELSE Some(txt_files[0 + 1])

\* ------------------------------------------------- the async operations
\* What Task::perform is given: the operation and its arguments.
CreateTask(path) == [kind |-> "create", path |-> Some(path), text |-> <<>>, prev |-> FALSE]
SaveTask(path, text) == [kind |-> "save", path |-> path, text |-> text, prev |-> FALSE]
LoadTask(current_file, find_previous) ==
    [kind |-> "load", path |-> current_file, text |-> <<>>, prev |-> find_previous]

\* The path save_file writes: the one given, or a name made from the clock
\* when the operation runs.
SavePath(path, t) == IF path # None THEN path[1] ELSE NewFilename(t)

\* tokio::fs::write(&path, contents): on success the file holds contents.
WriteFile(d, path, contents, io) ==
    IF io THEN [d EXCEPT ![path.name] = Some(contents)] ELSE d

\* The Result an operation returns, as the message built from it carries it.
Ok(path, text) == [ok |-> TRUE, path |-> Some(path), text |-> text]
Err == [ok |-> FALSE, path |-> None, text |-> <<>>]

\* create_new_file and save_file return the path they wrote.
WriteResult(path, io) == IF io THEN Ok(path, <<>>) ELSE Err

\* find_and_load_file: scan, select, read. io is whether the scan and the
\* read succeed.
LoadResult(d, current_file, find_previous, io) ==
    LET target_path == FindAdjacent(ListTxtFiles(d), current_file, find_previous)
    IN IF io /\ target_path # None
       THEN Ok(target_path[1], d[target_path[1].name][1])
       ELSE Err

MessageOf(kind) ==
    CASE kind = "create" -> "FileCreated"
      [] kind = "save" -> "FileSaved"
      [] kind = "load" -> "FileLoaded"

\* ------------------------------------------------------ Editor::update
\* The field updates of each arm of the match, one operator per field.
\* The edit flag overwrites the dirty flag instead of being or-ed into it.
ActionDirtyOverwrite(dirty, action) == action.is_edit

ActionDirty(dirty, action) == dirty \/ action.is_edit

\* is_loading is cleared inside the `if let Ok` instead of before it.
FileCreatedLoadingOnOk(loading, result) == IF result.ok THEN FALSE ELSE loading

FileCreatedLoading(loading, result) == FALSE
FileCreatedFile(f, result) == IF result.ok THEN result.path ELSE f

FileSavedLoading(loading, result) == FALSE
\* The returned path is not adopted.
FileSavedFileKeep(f, result) == f

FileSavedFile(f, result) == IF result.ok THEN result.path ELSE f
\* is_dirty is cleared outside the `if let Ok`.
FileSavedDirtyAlways(dirty, result) == FALSE

FileSavedDirty(dirty, result) == IF result.ok THEN FALSE ELSE dirty

FileLoadedLoading(loading, result) == FALSE
FileLoadedFile(f, result) == IF result.ok THEN result.path ELSE f
FileLoadedContent(c, result) == IF result.ok THEN result.text ELSE c
FileLoadedDirty(dirty, result) == IF result.ok THEN FALSE ELSE dirty

\* The tasks each arm returns (Task::none() is the empty sequence).
\* The save is launched without looking at is_loading.
AutoSaveTasksUngated(loading, f, text) == <<SaveTask(f, text)>>

AutoSaveTasks(loading, f, text) ==
    IF loading THEN <<>> ELSE <<SaveTask(f, text)>>

\* The save is launched on is_dirty alone.
WindowClosedTasksUngated(loading, dirty, f, text) ==
    IF dirty THEN <<SaveTask(f, text)>> ELSE <<>>

WindowClosedTasks(loading, dirty, f, text) ==
    IF dirty /\ ~loading THEN <<SaveTask(f, text)>> ELSE <<>>

SaveIfDirty(dirty, f, text) == IF dirty THEN <<SaveTask(f, text)>> ELSE <<>>

\* The dirty buffer is not saved before the load is launched.
OpenFileTasksNoSave(loading, dirty, f, text, find_previous) ==
    IF loading THEN <<>> ELSE <<LoadTask(f, find_previous)>>

OpenFileTasks(loading, dirty, f, text, find_previous) ==
    IF loading THEN <<>>
    ELSE SaveIfDirty(dirty, f, text) \o <<LoadTask(f, find_previous)>>

\* is_loading is raised again while the new file is being created.
CreateNewFileLoadingRaised(loading) == TRUE

\* The dirty buffer is not saved before it is cleared.
CreateNewFileTasksNoSave(loading, dirty, f, text, t) ==
    IF loading THEN <<>> ELSE <<CreateTask(NewFilename(t))>>

\* The CreateNewFile arm does not assign is_loading.
CreateNewFileLoading(loading) == loading

CreateNewFileTasks(loading, dirty, f, text, t) ==
    IF loading THEN <<>>
    ELSE SaveIfDirty(dirty, f, text) \o <<CreateTask(NewFilename(t))>>

\* ------------------------------------------------------------ the state
AdjIdle ==
    [listing |-> <<>>, current |-> None, prev |-> FALSE,
     res1 |-> None, res2 |-> None, step |-> 0]

Handled(msg, ok) == [msg |-> msg, ok |-> ok]

\* Files left by earlier sessions: any of the names before the clock's start,
\* each holding a one-character text.
PreTexts == {t \in Texts : Len(t) = 1}
InitDisks ==
    {d \in [Names -> {None} \cup {Some(t) : t \in PreTexts}] :
        \A n \in Clock : d[n] = None}

\* Editor::new: the default fields and the bootstrap create_new_file.
Init ==
    /\ file = None
    /\ content = <<>>
    /\ is_loading = TRUE
    /\ is_dirty = FALSE
    /\ now = ClockStart
    /\ pending = SetToBag({CreateTask(NewFilename(ClockStart))})
    /\ launched = 1
    /\ reconciled = 0
    /\ msgs = <<>>
    /\ disk \in InitDisks
    /\ last = Handled("new", TRUE)
    /\ handed = {<<>>}
    /\ fails = 0
    /\ bootstrap = "pending"
    /\ adj = AdjIdle
    /\ owned = {NewFilename(ClockStart).name}

\* Local::now(): the clock is looked at only when a file name is made, and
\* has then advanced by any amount since it was last looked at.
ClockRead(reads) == IF reads THEN {t \in Clock : t >= now} ELSE {now}

\* Task::perform / Task::batch on the tasks an arm returns.
RECURSIVE SeqToBag(_)
SeqToBag(tasks) ==
    IF tasks = <<>> THEN EmptyBag
    ELSE SetToBag({Head(tasks)}) (+) SeqToBag(Tail(tasks))

Launch(tasks) ==
    /\ launched + Len(tasks) <= MaxOps
    /\ pending' = pending (+) SeqToBag(tasks)
    /\ launched' = launched + Len(tasks)

SavedTexts(tasks) == {tasks[i].text : i \in {j \in 1..Len(tasks) : tasks[j].kind = "save"}}

\* ------------------------------------------------- user and timer events
ActionPerformed(action) ==
    /\ Len(Perform(content, action)) <= MaxLen
    /\ is_dirty' = ActionDirty(is_dirty, action)
    /\ content' = Perform(content, action)
    /\ last' = Handled("ActionPerformed", TRUE)
    /\ UNCHANGED <<file, is_loading, pending, msgs, disk, now, launched, reconciled,
                   handed, fails, bootstrap, adj, owned>>

AutoSave ==
    LET tasks == AutoSaveTasks(is_loading, file, content)
    IN /\ Launch(tasks)
       /\ handed' = handed \cup SavedTexts(tasks)
       /\ last' = Handled("AutoSave", TRUE)
       /\ UNCHANGED <<editor, msgs, disk, now, reconciled, fails, bootstrap, adj, owned>>

WindowClosed ==
    LET tasks == WindowClosedTasks(is_loading, is_dirty, file, content)
    IN /\ Launch(tasks)
       /\ handed' = handed \cup SavedTexts(tasks)
       /\ last' = Handled("WindowClosed", TRUE)
       /\ UNCHANGED <<editor, msgs, disk, now, reconciled, fails, bootstrap, adj, owned>>

OpenFile(find_previous) ==
    LET tasks == OpenFileTasks(is_loading, is_dirty, file, content, find_previous)
    IN /\ Launch(tasks)
       /\ handed' = handed \cup SavedTexts(tasks)
       /\ last' = Handled(IF find_previous THEN "OpenPreviousFile" ELSE "OpenNextFile", TRUE)
       /\ UNCHANGED <<editor, msgs, disk, now, reconciled, fails, bootstrap, adj, owned>>

OpenPreviousFile == OpenFile(TRUE)

OpenNextFile == OpenFile(FALSE)

CreateNewFile ==
    LET tasks == CreateNewFileTasks(is_loading, is_dirty, file, content, now')
    IN /\ now' \in ClockRead(~is_loading)
       /\ Launch(tasks)
       /\ content' = IF is_loading THEN content ELSE <<>>
       /\ is_dirty' = IF is_loading THEN is_dirty ELSE FALSE
       /\ handed' = IF is_loading THEN handed ELSE {<<>>}
       /\ is_loading' = IF is_loading THEN is_loading ELSE CreateNewFileLoading(is_loading)
       /\ owned' = IF is_loading THEN owned ELSE {NewFilename(now').name}
       /\ last' = Handled("CreateNewFile", TRUE)
       /\ UNCHANGED <<file, msgs, disk, reconciled, fails, bootstrap, adj>>

\* ------------------------------------------------- operations running
\* The message a finished operation sends: Message::FileCreated(result) and
\* so on. `of` remembers the path the operation was launched with.
Completion(t, result) ==
    [kind |-> MessageOf(t.kind), result |-> result, of |-> t.path]

RunCreate(t, io) ==
    /\ BagIn(t, pending) /\ t.kind = "create"
    /\ (io \/ fails < MaxFail)
    /\ pending' = pending (-) SetToBag({t})
    /\ disk' = WriteFile(disk, t.path[1], <<>>, io)
    /\ msgs' = Append(msgs, Completion(t, WriteResult(t.path[1], io)))
    /\ fails' = IF io THEN fails ELSE fails + 1
    /\ UNCHANGED <<editor, now, launched, reconciled, last, handed, bootstrap, adj, owned>>

RunSave(t, io) ==
    LET path == SavePath(t.path, now')
    IN /\ BagIn(t, pending) /\ t.kind = "save"
       /\ now' \in ClockRead(t.path = None)
       /\ (io \/ fails < MaxFail)
       /\ pending' = pending (-) SetToBag({t})
       /\ disk' = WriteFile(disk, path, t.text, io)
       /\ msgs' = Append(msgs, Completion(t, WriteResult(path, io)))
       /\ fails' = IF io THEN fails ELSE fails + 1
       /\ UNCHANGED <<editor, launched, reconciled, last, handed, bootstrap, adj, owned>>

RunLoad(t, io) ==
    LET result == LoadResult(disk, t.path, t.prev, io)
    IN /\ BagIn(t, pending) /\ t.kind = "load"
       /\ (io \/ fails < MaxFail)
       /\ pending' = pending (-) SetToBag({t})
       /\ msgs' = Append(msgs, Completion(t, result))
       /\ fails' = IF io THEN fails ELSE fails + 1
       /\ UNCHANGED <<editor, disk, now, launched, reconciled, last, handed, bootstrap, adj, owned>>

\* ------------------------------------------------- completions reconciled
FileCreated ==
    /\ msgs # <<>> /\ Head(msgs).kind = "FileCreated"
    /\ LET result == Head(msgs).result
       IN /\ is_loading' = FileCreatedLoading(is_loading, result)
          /\ file' = FileCreatedFile(file, result)
          /\ last' = Handled("FileCreated", result.ok)
          /\ bootstrap' = IF bootstrap # "pending" THEN bootstrap
                          ELSE IF result.ok THEN "created" ELSE "failed"
    /\ msgs' = Tail(msgs)
    /\ reconciled' = reconciled + 1
    /\ UNCHANGED <<content, is_dirty, pending, disk, now, launched, handed, fails, adj, owned>>

FileSaved ==
    /\ msgs # <<>> /\ Head(msgs).kind = "FileSaved"
    /\ LET result == Head(msgs).result
       IN /\ is_loading' = FileSavedLoading(is_loading, result)
          /\ file' = FileSavedFile(file, result)
          /\ is_dirty' = FileSavedDirty(is_dirty, result)
          /\ last' = Handled("FileSaved", result.ok)
          /\ owned' = IF result.ok /\ Head(msgs).of = None
                      THEN owned \cup {result.path[1].name} ELSE owned
    /\ msgs' = Tail(msgs)
    /\ reconciled' = reconciled + 1
    /\ UNCHANGED <<content, pending, disk, now, launched, handed, fails, bootstrap, adj>>

FileLoaded ==
    /\ msgs # <<>> /\ Head(msgs).kind = "FileLoaded"
    /\ LET result == Head(msgs).result
       IN /\ is_loading' = FileLoadedLoading(is_loading, result)
          /\ file' = FileLoadedFile(file, result)
          /\ content' = FileLoadedContent(content, result)
          /\ is_dirty' = FileLoadedDirty(is_dirty, result)
          /\ handed' = IF result.ok THEN {result.text} ELSE handed
          /\ last' = Handled("FileLoaded", result.ok)
          /\ owned' = IF result.ok THEN {result.path[1].name} ELSE owned
    /\ msgs' = Tail(msgs)
    /\ reconciled' = reconciled + 1
    /\ UNCHANGED <<pending, disk, now, launched, fails, bootstrap, adj>>

Next ==
    \/ \E action \in Actions : ActionPerformed(action)
    \/ AutoSave
    \/ WindowClosed
    \/ OpenPreviousFile
    \/ OpenNextFile
    \/ CreateNewFile
    \/ \E t \in BagToSet(pending), io \in BOOLEAN : RunCreate(t, io)
    \/ \E t \in BagToSet(pending), io \in BOOLEAN : RunSave(t, io)
    \/ \E t \in BagToSet(pending), io \in BOOLEAN : RunLoad(t, io)
    \/ FileCreated
    \/ FileSaved
    \/ FileLoaded

Spec == Init /\ [][Next]_vars

\* ---------------------------------------- the selection on every listing
\* The selection of find_and_load_file applied to every sorted listing of
\* absolute paths, every current file (none, absolute or bare) and both
\* directions, and then once more from its result in the opposite direction.
Listings ==
    {[i \in 1..Len(SortedSeq(S)) |-> Abs(SortedSeq(S)[i])] : S \in SUBSET Names}

AdjInputs ==
    [listing : Listings, current : {None} \cup {Some(p) : p \in Paths},
     prev : BOOLEAN, res1 : {None}, res2 : {None}, step : {0}]

InitAdj ==
    /\ file = None
    /\ content = <<>>
    /\ is_loading = TRUE
    /\ is_dirty = FALSE
    /\ now = ClockStart
    /\ pending = EmptyBag
    /\ launched = 0
    /\ reconciled = 0
    /\ msgs = <<>>
    /\ disk = [n \in Names |-> None]
    /\ last = Handled("new", TRUE)
    /\ handed = {<<>>}
    /\ fails = 0
    /\ bootstrap = "pending"
    /\ adj \in AdjInputs
    /\ owned = {}

AdjSelect ==
    /\ adj.step = 0
    /\ adj' = [adj EXCEPT !.res1 = FindAdjacent(adj.listing, adj.current, adj.prev),
                          !.step = 1]
    /\ UNCHANGED <<editor, pending, msgs, disk, now, launched, reconciled, last,
                   handed, fails, bootstrap, owned>>

AdjBack ==
    /\ adj.step = 1
    /\ adj.res1 # None
    /\ adj' = [adj EXCEPT !.res2 = FindAdjacent(adj.listing, adj.res1, ~adj.prev),
                          !.step = 2]
    /\ UNCHANGED <<editor, pending, msgs, disk, now, launched, reconciled, last,
                   handed, fails, bootstrap, owned>>

NextAdj == AdjSelect \/ AdjBack

SpecAdj == InitAdj /\ [][NextAdj]_vars

\* ---------------------------------------------------------- fairness
\* The executor runs every spawned operation to completion and the event loop
\* handles every message it is sent.
Fairness ==
    /\ WF_vars(\E t \in BagToSet(pending), io \in BOOLEAN : RunCreate(t, io))
    /\ WF_vars(\E t \in BagToSet(pending), io \in BOOLEAN : RunSave(t, io))
    /\ WF_vars(\E t \in BagToSet(pending), io \in BOOLEAN : RunLoad(t, io))
    /\ WF_vars(FileCreated)
    /\ WF_vars(FileSaved)
    /\ WF_vars(FileLoaded)

FairSpec == Init /\ [][Next]_vars /\ Fairness

\* ================================================================ claims
\* ---- steps, as the claims speak of them
\* Editor::update handles the completion message at the head of the queue.
Delivered(kind, ok) ==
    /\ msgs # <<>>
    /\ Head(msgs).kind = kind
    /\ Head(msgs).result.ok = ok
    /\ msgs' = Tail(msgs)

\* Editor::update handles an ActionPerformed.
ActionStep ==
    /\ last' = Handled("ActionPerformed", TRUE)
    /\ pending' = pending /\ msgs' = msgs /\ launched' = launched

\* Editor::update handles an AutoSave and launches the save.
AutoSaveStep ==
    /\ last' = Handled("AutoSave", TRUE)
    /\ launched' = launched + 1

\* Editor::update handles a CreateNewFile while not loading.
NewFileStep ==
    /\ ~is_loading
    /\ last' = Handled("CreateNewFile", TRUE)
    /\ launched' > launched

\* ---- the session, under Spec
\* C1: with every file operation succeeding, whenever a successful FileLoaded
\* replaces the buffer or CreateNewFile clears it, the text discarded is the
\* text the buffer was loaded or created with, or a text that was given to a
\* save launched for this buffer.
C1_NoUnsavedWorkLost ==
    [][fails = 0 =>
         /\ Delivered("FileLoaded", TRUE) => content \in handed
         /\ NewFileStep => (is_dirty \/ content \in handed)]_vars

\* C2: a successful FileSaved for path A that is handled after a successful
\* FileLoaded made another file B current leaves current_file at B.
C2_StaleSaveKeepsCurrentFile ==
    [][(/\ Delivered("FileSaved", TRUE)
        /\ last = Handled("FileLoaded", TRUE)
        /\ Head(msgs).of # None
        /\ file # None
        /\ file[1].name # Head(msgs).result.path[1].name)
       => file' = file]_vars

\* C3: whenever loading is false, a file is current and dirty is false, the
\* buffer text is the text that file holds.
C3_DirtyExact ==
    (~is_loading /\ file # None /\ ~is_dirty) => disk[file[1].name] = Some(content)

\* C4 as stated: a content-changing edit sets dirty; an edit message that
\* does not change the content leaves dirty unchanged; a successful FileSaved
\* clears dirty and makes the returned path current.
C4_AsStated ==
    [][/\ (ActionStep /\ content' # content) => is_dirty'
       /\ (ActionStep /\ content' = content) => is_dirty' = is_dirty
       /\ Delivered("FileSaved", TRUE) =>
             (~is_dirty' /\ file' = Head(msgs).result.path)]_vars

\* C4 as amended: a content-changing edit sets dirty; an action that is not
\* an edit (is_edit() is false) leaves dirty unchanged, and any edit action
\* sets dirty, also one that leaves the text as it was; a successful
\* FileSaved clears dirty and makes the returned path current.
C4_DirtyTransitions ==
    [][/\ (ActionStep /\ content' # content) => is_dirty'
       /\ \A a \in Actions :
             ActionPerformed(a) => IF a.is_edit THEN is_dirty'
                                   ELSE is_dirty' = is_dirty
       /\ Delivered("FileSaved", TRUE) =>
             (~is_dirty' /\ file' = Head(msgs).result.path)]_vars

\* An edit has just changed the buffer and dirty is set.
C4_Witness ==
    /\ last = Handled("ActionPerformed", TRUE)
    /\ ~is_loading
    /\ content # <<>>
    /\ handed = {<<>>}
    /\ is_dirty

\* C5: every operation launched is run and its one completion message is
\* handled by Editor::update, whether it succeeded or failed: again and again
\* nothing launched is left unhandled, no operation is lost or handled
\* twice, and handling any completion has cleared is_loading.
C5_EveryOperationReconciled ==
    /\ []<>(reconciled = launched)
    /\ [](launched = reconciled + BagCardinality(pending) + Len(msgs))
    /\ [](reconciled > 0 => ~is_loading)

\* All the operations a run may launch were handled, a failed one among them.
C5_Witness ==
    /\ launched = MaxOps
    /\ reconciled = launched
    /\ fails > 0

\* C6: a FileCreated, FileSaved or FileLoaded that carries an error leaves
\* current_file, dirty and the buffer as they were, launches nothing, and
\* leaves is_loading false.
C6_FailuresChangeNothing ==
    [][\A kind \in {"FileCreated", "FileSaved", "FileLoaded"} :
          Delivered(kind, FALSE) =>
             /\ file' = file
             /\ is_dirty' = is_dirty
             /\ content' = content
             /\ pending' = pending
             /\ launched' = launched
             /\ ~is_loading']_vars

\* A failed save has been handled and the buffer is still dirty.
C6_Witness ==
    /\ last = Handled("FileSaved", FALSE)
    /\ is_dirty
    /\ content # <<>>
    /\ ~is_loading

C10_AsStated ==
    [][bootstrap' = "failed" =>
         /\ (bootstrap = "pending" /\ Delivered("FileCreated", FALSE)) =>
               (file' = None /\ ~is_loading')
         /\ AutoSaveStep =>
               pending' = pending (+) SetToBag({SaveTask(None, content)})
         /\ (Delivered("FileSaved", TRUE) /\ Head(msgs).of = None) =>
               /\ file' = Head(msgs).result.path
               /\ file'[1] \in {NewFilename(t) : t \in Clock}
               /\ ~is_dirty']_vars

\* C10 as amended: the same, for every later AutoSave that is handled while
\* current_file is still none.
C10_FailedBootstrapRecovers ==
    [][bootstrap' = "failed" =>
         /\ (bootstrap = "pending" /\ Delivered("FileCreated", FALSE)) =>
               (file' = None /\ ~is_loading')
         /\ (AutoSaveStep /\ file = None) =>
               pending' = pending (+) SetToBag({SaveTask(None, content)})
         /\ (Delivered("FileSaved", TRUE) /\ Head(msgs).of = None) =>
               /\ file' = Head(msgs).result.path
               /\ file'[1] \in {NewFilename(t) : t \in Clock}
               /\ ~is_dirty']_vars

\* The bootstrap failed, the one operation launched since was a save, it
\* succeeded, and its generated path is current.
C10_Witness ==
    /\ bootstrap = "failed"
    /\ launched = 2 /\ reconciled = 2
    /\ last = Handled("FileSaved", TRUE)
    /\ file # None
    /\ ~is_dirty

\* ---- the selection, under SpecAdj
InListing(listing, p) == \E i \in 1..Len(listing) : listing[i] = p

\* 0-based index of p in a listing that holds it
IndexOf(listing, p) == (CHOOSE i \in 1..Len(listing) : listing[i] = p) - 1

\* C7: the selection agrees with the specified function: an empty listing
\* fails; a current file that is absent or not in the listing gives the first
\* element whatever the direction; a current file at index i of n > 1 files
\* gives index (i - 1) mod n for Previous and (i + 1) mod n for Next.
C7_SelectionMatchesSpec ==
    adj.step >= 1 =>
        LET l == adj.listing
            n == Len(l)
            c == adj.current
        IN /\ n = 0 => adj.res1 = None
           /\ (n > 0 /\ (c = None \/ ~InListing(l, c[1]))) => adj.res1 = Some(l[1])
           /\ (n > 1 /\ c # None /\ InListing(l, c[1])) =>
                 LET i == IndexOf(l, c[1])
                 IN adj.res1 = IF adj.prev THEN Some(l[((i + n - 1) % n) + 1])
                                           ELSE Some(l[((i + 1) % n) + 1])

\* Next from the last of three files has wrapped to the first.
C7_Witness ==
    /\ adj.step >= 1
    /\ Len(adj.listing) = 3
    /\ adj.current = Some(adj.listing[3])
    /\ ~adj.prev
    /\ adj.res1 = Some(adj.listing[1])

\* C8: in a listing of more than one file, Previous then Next, and Next then
\* Previous, from any element of the listing return that element.
C8_CyclicInverse ==
    (adj.step = 2 /\ Len(adj.listing) > 1
        /\ adj.current # None /\ InListing(adj.listing, adj.current[1]))
    => adj.res2 = adj.current

\* Previous from the first of three files went to the last, and Next from
\* there came back.
C8_Witness ==
    /\ adj.step = 2
    /\ Len(adj.listing) = 3
    /\ adj.current = Some(adj.listing[1])
    /\ adj.prev
    /\ adj.res1 = Some(adj.listing[3])
    /\ adj.res2 = adj.current

\* ---- the loading gate, under Spec
\* The messages the handlers of which return at once while is_loading.
GatedMessages ==
    {"AutoSave", "WindowClosed", "OpenPreviousFile", "OpenNextFile", "CreateNewFile"}

\* Editor::update handles one of the gated messages.
GatedStep == last'.msg \in GatedMessages /\ msgs' = msgs

\* C11: while is_loading is true, handling AutoSave, OpenPreviousFile,
\* OpenNextFile, CreateNewFile or WindowClosed launches no operation and
\* leaves file, content, is_loading and is_dirty unchanged.
C11_GatedWhileLoading ==
    [][(is_loading /\ GatedStep) =>
          /\ pending' = pending
          /\ launched' = launched
          /\ UNCHANGED editor]_vars

\* A WindowClosed has been handled while loading with an edited buffer, and
\* the bootstrap create is still the only operation launched.
C11_Witness ==
    /\ is_loading /\ is_dirty
    /\ content # <<>>
    /\ last = Handled("WindowClosed", TRUE)
    /\ launched = 1

\* The operations in flight: launched and not run, or run and not handled.
InFlightKinds ==
    {t.kind : t \in BagToSet(pending)} \cup
    {IF msgs[i].kind = "FileCreated" THEN "create"
     ELSE IF msgs[i].kind = "FileSaved" THEN "save" ELSE "load" : i \in 1..Len(msgs)}

\* C12: while is_loading is true exactly one operation is in flight, it is
\* the create launched by Editor::new, and no save or load is in flight or
\* has been handled.
C12_OnlyBootstrapWhileLoading ==
    is_loading =>
        /\ BagCardinality(pending) + Len(msgs) = 1
        /\ InFlightKinds = {"create"}
        /\ launched = 1
        /\ reconciled = 0
        /\ bootstrap = "pending"

\* An AutoSave has been handled while loading, after the bootstrap create
\* ran and before its FileCreated is handled.
C12_Witness ==
    /\ is_loading
    /\ msgs # <<>>
    /\ last = Handled("AutoSave", TRUE)

\* C13: is_loading is one-shot: it is true from Editor::new until the first
\* completion message is handled, false from then on, and no step (a later
\* CreateNewFile or navigation with its operation still pending included)
\* makes it true again.
C13_LoadingOneShot ==
    [][/\ reconciled = 0 => is_loading
       /\ reconciled' = 0 => is_loading'
       /\ reconciled' > 0 => ~is_loading'
       /\ ~is_loading => ~is_loading']_vars

\* After the bootstrap was handled a CreateNewFile has launched a create that
\* is still pending, and is_loading is false.
C13_Witness ==
    /\ ~is_loading
    /\ last = Handled("CreateNewFile", TRUE)
    /\ reconciled = 1
    /\ \E t \in BagToSet(pending) : t.kind = "create"

\* ---- navigation and new file, under Spec
\* Editor::update handles OpenPreviousFile or OpenNextFile while not loading.
NavigationStep(find_previous) ==
    /\ ~is_loading
    /\ last' = Handled(IF find_previous THEN "OpenPreviousFile" ELSE "OpenNextFile", TRUE)
    /\ msgs' = msgs
    /\ (last' # last \/ pending' # pending)

\* C14: handling a navigation while not loading changes none of content,
\* file, is_dirty and is_loading; it launches one load relative to the file
\* current at that moment, and besides it a save of the current file and
\* buffer if and only if is_dirty; the buffer is replaced by a file's text
\* only when a successful FileLoaded is handled.
C14_NavigationKeepsDocument ==
    [][/\ \A find_previous \in BOOLEAN :
             NavigationStep(find_previous) =>
                 /\ UNCHANGED editor
                 /\ pending' = pending (+)
                        (IF is_dirty
                            THEN SetToBag({SaveTask(file, content)})
                                 (+) SetToBag({LoadTask(file, find_previous)})
                            ELSE SetToBag({LoadTask(file, find_previous)}))
                 /\ launched' = launched + (IF is_dirty THEN 2 ELSE 1)
       /\ content' # content =>
             \/ ActionStep
             \/ NewFileStep /\ content' = <<>>
             \/ Delivered("FileLoaded", TRUE) /\ content' = Head(msgs).result.text]_vars

\* A navigation has been handled with an edited buffer: the save of the
\* buffer and the load are both pending and the buffer is still the edited
\* text.
C14_Witness ==
    /\ last = Handled("OpenPreviousFile", TRUE)
    /\ is_dirty /\ content # <<>>
    /\ file # None
    /\ BagIn(SaveTask(file, content), pending)
    /\ BagIn(LoadTask(file, TRUE), pending)

\* The create launched by a CreateNewFile is pending or awaits its FileCreated.
NewFileCreateInFlight ==
    /\ bootstrap # "pending"
    /\ \/ \E t \in BagToSet(pending) : t.kind = "create"
       \/ \E i \in 1..Len(msgs) : msgs[i].kind = "FileCreated"

\* What CreateNewFile does in its own step: the buffer is empty and clean at
\* once, file and is_loading are untouched, one create for a name made from
\* the clock is launched, and with it a save of the file and text of before
\* the step if and only if the buffer was dirty.
NewFileHandled ==
    NewFileStep =>
        /\ content' = <<>>
        /\ ~is_dirty'
        /\ file' = file
        /\ is_loading' = is_loading
        /\ \E t \in {u \in Clock : u >= now} :
              pending' = pending (+) SetToBag({CreateTask(NewFilename(t))})
                           (+) (IF is_dirty THEN SetToBag({SaveTask(file, content)})
                                            ELSE EmptyBag)
        /\ launched' = launched + (IF is_dirty THEN 2 ELSE 1)

\* C15 as stated: CreateNewFile clears synchronously and launches the create
\* and the conditional save, and file does not change from then until a
\* successful FileCreated is handled.
C15_AsStated ==
    [][/\ NewFileHandled
       /\ (NewFileCreateInFlight /\ ~Delivered("FileCreated", TRUE)) => file' = file]_vars

\* C15 as amended: CreateNewFile clears synchronously, launches the create
\* and the conditional save and does not itself change file; a successful
\* FileCreated puts the created path in file, and while the create is in
\* flight file changes only when a successful completion is handled.
C15_NewFileClearsSynchronously ==
    [][/\ NewFileHandled
       /\ Delivered("FileCreated", TRUE) => file' = Head(msgs).result.path
       /\ (NewFileCreateInFlight /\ file' # file) =>
             \E kind \in {"FileCreated", "FileSaved", "FileLoaded"} : Delivered(kind, TRUE)]_vars

\* A CreateNewFile has been handled on an edited buffer of a named file: the
\* buffer is empty and clean, the file is still the old one, and the save of
\* the old text and the create are pending.
C15_Witness ==
    /\ last = Handled("CreateNewFile", TRUE)
    /\ ~is_loading /\ ~is_dirty
    /\ content = <<>>
    /\ file # None
    /\ \E t \in BagToSet(pending) : t.kind = "save" /\ t.path = file /\ t.text # <<>>
    /\ \E t \in BagToSet(pending) : t.kind = "create" /\ t.path # file

\* ---- closing, under Spec
\* Editor::update handles a WindowClosed.
WindowClosedStep ==
    /\ last' = Handled("WindowClosed", TRUE)
    /\ msgs' = msgs
    /\ (last' # last \/ pending' # pending)

\* C16: handling WindowClosed changes no field and launches a save of the
\* current file and buffer if and only if is_dirty and not is_loading;
\* consequently, when no file operation has failed and the window closes
\* after loading with a buffer text that the buffer was not loaded or created
\* with and that was given to no save, this step launches the save of it.
C16_FinalSaveOnClose ==
    [][WindowClosedStep =>
          /\ UNCHANGED editor
          /\ pending' = pending (+)
                 (IF is_dirty /\ ~is_loading THEN SetToBag({SaveTask(file, content)})
                                             ELSE EmptyBag)
          /\ (fails = 0 /\ ~is_loading /\ content \notin handed) =>
                 CopiesIn(SaveTask(file, content), pending')
                     > CopiesIn(SaveTask(file, content), pending)]_vars

\* ---- navigation from a file of the session's own, under Spec
\* find_and_load_file has run without an I/O error and sent its FileLoaded.
LoadRan ==
    /\ Len(msgs') = Len(msgs) + 1
    /\ msgs'[Len(msgs')].kind = "FileLoaded"
    /\ fails' = fails

\* C17: when the load was launched from a current file named by the session
\* itself (a bare name adopted from create_new_file or from save_file
\* without a path), that file is in the directory and the directory holds
\* more than one file, the file loaded is the one before (Previous) or after
\* (Next) the current file in the sorted listing, wrapping around.
C17_NavigationFromOwnFile ==
    [][LoadRan =>
          LET m == msgs'[Len(msgs')]
              l == ListTxtFiles(disk)
              n == Len(l)
          IN (/\ m.of # None
              /\ ~m.of[1].abs
              /\ InListing(l, Abs(m.of[1].name))
              /\ n > 1) =>
                 LET i == IndexOf(l, Abs(m.of[1].name))
                 IN /\ m.result.ok
                    /\ \/ m.result.path = Some(l[((i + n - 1) % n) + 1])
                       \/ m.result.path = Some(l[((i + 1) % n) + 1])
                    /\ \E t \in BagToSet(pending) :
                          /\ t.kind = "load" /\ t.path = m.of
                          /\ m.result.path =
                                IF t.prev THEN Some(l[((i + n - 1) % n) + 1])
                                          ELSE Some(l[((i + 1) % n) + 1])]_vars

\* ---- whose text a save writes, under Spec
\* The saves a step launches.
SavesLaunched ==
    {t \in BagToSet(pending') : t.kind = "save" /\ CopiesIn(t, pending') > CopiesIn(t, pending)}

\* C18: every save launched with a path writes the buffer into a file of the
\* document in the buffer: the file this document was loaded from, the file
\* being created for it, or a file an earlier save without a path made.
C18_SaveKeepsToItsDocument ==
    [][\A t \in SavesLaunched : t.path # None => t.path[1].name \in owned]_vars

\* C19: a navigation never loads the file it started from: whenever a load
\* launched with a current file succeeds, the file it read is not the
\* current file it was launched with, so that the save and the load of one
\* navigation never work on the same file.
C19_NavigationLeavesCurrent ==
    [][LoadRan =>
          LET m == msgs'[Len(msgs')]
          IN (m.of # None /\ m.result.ok) =>
                 m.result.path[1].name # m.of[1].name]_vars

====
